---- MODULE Spec2Model ----
(***************************************************************************)
(* Model of the task lifecycle of the LLM code deployment engine           *)
(* (src/main.py, src/config.py): the /api/build, /api/revise,              *)
(* /api/evaluate/webhook, /api/results and /api/tasks handlers, the        *)
(* detached evaluation notifier, the task store and the hosting target.    *)
(*                                                                         *)
(* The server runs one asyncio event loop: a handler runs without          *)
(* interruption from one `await` to the next.  build_task awaits           *)
(* generate_app and create_and_deploy_repo, so it is three steps;          *)
(* revise_task, evaluation_webhook, get_results and get_tasks contain no   *)
(* await and are one step each.                                            *)
(*                                                                         *)
(* call[r] is the record of one handler invocation: what it was called     *)
(* with, where it is, what it did and what it answered.  The record of an  *)
(* invocation that is over is kept until the next step of the system.      *)
(***************************************************************************)
EXTENDS Naturals, Integers, Sequences, FiniteSets, Bags, TLC

\* ------------------------------------------------------------------ bounds
NReq == 2        \* handler invocations that can be in progress together
NTasks == 1      \* distinct task names
MaxRound == 2    \* rounds a request may carry: 1..MaxRound
NNonce == 2      \* distinct nonces
MaxClock == 2    \* webhook calls that read the clock

Req == 1..NReq
Tasks == 1..NTasks
Rounds == 1..MaxRound
Nonces == 1..NNonce

\* build_task and revise_task only copy the nonce into the evaluation payload
\* (src/main.py:208, 322): one value stands for all of them.
RequestNonces == {1}

\* ------------------------------------------------------- program constants
STUDENT_SECRET == "s3cret"
Secrets == {STUDENT_SECRET, "wrong"}
MAX_RETRY_ATTEMPTS_Fewer == 3 - 1
MAX_RETRY_ATTEMPTS == 3
GITHUB_USERNAME == "user"

VARIABLES
  call,      \* call[r]: the handler invocation in slot r
  tasks,     \* bag of Task rows
  results,   \* bag of EvaluationResult rows
  repo,      \* repo[t]: the hosting target named t
  clock      \* datetime.utcnow()

vars == <<call, tasks, results, repo, clock>>

NoReq == [kind |-> "none", task |-> 0, round |-> 0, secret |-> "", nonce |-> 0]
NoResp == [code |-> 0, status |-> ""]
NoPayload == [task |-> 0, round |-> 0, nonce |-> 0, repo_url |-> <<>>, pages_url |-> <<>>]
NoRepo == [exists |-> FALSE, index |-> 0, readme |-> 0]

\* req: the request body; pc: where the invocation is; resp: the response
\* returned (code 0: none yet); err: the call whose failure ended it; log:
\* the calls made, in order; session: the database session it opened; sched:
\* the payload handed to background_tasks.add_task; attempts: the outcomes of
\* the notifier's delivery attempts.
Idle ==
  [req |-> NoReq, pc |-> "idle", resp |-> NoResp, err |-> "none", log |-> <<>>,
   session |-> "none", sched |-> NoPayload, attempts |-> <<>>]

\* A slot is free for a new invocation before its first and after it is over.
Free == {"idle", "done"}

\* A new invocation takes the first free slot.
CanEnter(r) ==
  /\ call[r].pc \in Free
  /\ \A x \in Req : x < r => call[x].pc \notin Free

\* The slot r becomes c; the records of the invocations that were over
\* before this step are dropped.
Set(r, c) ==
  call' = [x \in Req |-> IF x = r THEN c
                         ELSE IF call[x].pc = "done" THEN Idle ELSE call[x]]

\* ------------------------------------------------------------- responses
HTTPException(code) == [code |-> code, status |-> "error"]

TaskResponse(task, round, repo_url, pages_url) ==
  [code |-> 200, status |-> "success", task_id |-> task, round |-> round,
   repo_url |-> repo_url, pages_url |-> pages_url]

WebhookAck == [code |-> 200, status |-> "received"]

RepoUrl(t) == <<"https://github.com", GITHUB_USERNAME, t>>
PagesUrl(t) == <<"https://", GITHUB_USERNAME, "github.io", t>>

\* The invocation of rq raises: the response is the error.
Raise(rq, code, why, lg, ses) ==
  [Idle EXCEPT !.req = rq, !.pc = "done", !.resp = HTTPException(code),
               !.err = why, !.log = lg, !.session = ses]

\* ----------------------------------------------------------------- guards
Authenticated_Always(rq) == TRUE

\* `if req.secret != STUDENT_SECRET: raise HTTPException(403)`
Authenticated(rq) == rq.secret = STUDENT_SECRET

RoundAccepted_Any(rq) == TRUE

\* `if req.round != 2: raise HTTPException(400)`
RoundAccepted(rq) == rq.round = 2

\* ------------------------------------------------------------ task store
TaskRow(t, rd) == [task_id |-> t, round |-> rd, status |-> "pending"]

HasTask(store, t, rd) ==
  \E row \in BagToSet(store) : row.task_id = t /\ row.round = rd

\* task_mgr.create_task: one row per (task_id, round), recorded as pending.
create_task(store, t, rd) ==
  IF HasTask(store, t, rd) THEN store ELSE store (+) SetToBag({TaskRow(t, rd)})

\* task_mgr.get_task: the row for (task_id, round), falsy when there is none.
get_task(store, t, rd) == HasTask(store, t, rd)

HasResult(store, t, rd, n) ==
  \E row \in BagToSet(store) : row.task = t /\ row.round = rd /\ row.nonce = n

\* task_mgr.log_evaluation_result: a result for a (task, round, nonce) that
\* is already stored is a duplicate and is not stored again.
log_evaluation_result(store, row) ==
  IF HasResult(store, row.task, row.round, row.nonce)
  THEN store
  ELSE store (+) SetToBag({row})

\* The Task is looked up by its task_id alone.
TaskFound_AnyRound(store, rq) == \E rd \in Rounds : get_task(store, rq.task, rd)

TaskFound_Always(store, rq) == TRUE

\* `task = task_mgr.get_task(db, req.task, req.round)`, `if not task:`
TaskFound(store, rq) == get_task(store, rq.task, rq.round)

StoreResult_Insert(store, row) == store (+) SetToBag({row})

\* `task_mgr.log_evaluation_result(db, {...})`
StoreResult(store, row) == log_evaluation_result(store, row)

\* eval_svc.create_evaluation_payload
create_evaluation_payload(rq, repo_url, pages_url) ==
  [task |-> rq.task, round |-> rq.round, nonce |-> rq.nonce,
   repo_url |-> repo_url, pages_url |-> pages_url]

\* ------------------------------------------------------------------ Init
Init ==
  /\ call = [r \in Req |-> Idle]
  /\ tasks = EmptyBag
  /\ results = EmptyBag
  /\ repo = [t \in Tasks |-> NoRepo]
  /\ clock = 0

\* ------------------------------------------------------------- /api/build
\* What can go wrong in build_task before its first await.
BuildFaults == {"none", "process_attachments", "create_task"}

\* generate_app is started without the Task having been recorded.
BuildEnter_GenerateFirst(rq, fault, store) ==
  IF ~Authenticated(rq)
  THEN [slot |-> Raise(rq, 403, "auth", <<>>, "none"), tasks |-> store]
  ELSE IF fault = "process_attachments"
  THEN [slot |-> Raise(rq, 500, fault, <<"process_attachments">>, "none"),
        tasks |-> store]
  ELSE [slot |-> [Idle EXCEPT !.req = rq, !.pc = "generating",
                    !.log = <<"process_attachments", "generate_app">>],
        tasks |-> store]

\* build_task up to its first await (generate_app): the invocation's record
\* and the task store after it.
BuildEnter(rq, fault, store) ==
  IF ~Authenticated(rq)
  THEN [slot |-> Raise(rq, 403, "auth", <<>>, "none"), tasks |-> store]
  ELSE IF fault = "process_attachments"
  THEN [slot |-> Raise(rq, 500, fault, <<"process_attachments">>, "none"),
        tasks |-> store]
  ELSE IF fault = "create_task"
  THEN \* create_task raises after SessionLocal(): db.close() is skipped
       [slot |-> Raise(rq, 500, fault, <<"process_attachments", "create_task">>, "open"),
        tasks |-> store]
  ELSE [slot |-> [Idle EXCEPT !.req = rq, !.pc = "generating", !.session = "closed",
                    !.log = <<"process_attachments", "create_task", "generate_app">>],
        tasks |-> create_task(store, rq.task, rq.round)]

build_task(r) ==
  /\ CanEnter(r)
  /\ \E t \in Tasks, rd \in Rounds, s \in Secrets, n \in RequestNonces :
       LET rq == [kind |-> "build", task |-> t, round |-> rd, secret |-> s, nonce |-> n] IN
       \E fault \in (IF Authenticated(rq) THEN BuildFaults ELSE {"none"}) :
         LET out == BuildEnter(rq, fault, tasks)
         IN /\ Set(r, out.slot)
            /\ tasks' = out.tasks
  /\ UNCHANGED <<results, repo, clock>>

\* The failure of generate_app is swallowed.
BuildGenerated_Swallowed(c, ok) ==
  [c EXCEPT !.pc = "publishing", !.log = Append(@, "create_and_deploy_repo"),
            !.err = IF ok THEN "none" ELSE "generate_app"]

\* generate_app returns or raises; on return create_and_deploy_repo is awaited.
BuildGenerated(c, ok) ==
  IF ~ok
  THEN Raise(c.req, 500, "generate_app", c.log, c.session)
  ELSE [c EXCEPT !.pc = "publishing", !.log = Append(@, "create_and_deploy_repo")]

build_generated(r) ==
  /\ call[r].pc = "generating"
  /\ \E ok \in BOOLEAN : Set(r, BuildGenerated(call[r], ok))
  /\ UNCHANGED <<tasks, results, repo, clock>>

\* github_mgr.create_and_deploy_repo: creates the repository, writes the
\* page and the description, and waits until the page is reachable or the
\* wait times out.  A failure leaves whatever it had created.
PublishOutcomes == {"ready", "timed_out", "failed", "failed_partial"}

create_and_deploy_repo(hosting, t, outcome) ==
  CASE outcome \in {"ready", "timed_out"} ->
         [hosting EXCEPT ![t] = [exists |-> TRUE, index |-> 1, readme |-> 1]]
    [] outcome = "failed_partial" ->
         [hosting EXCEPT ![t].exists = TRUE]
    [] OTHER -> hosting

\* What create_and_deploy_repo returns for the repository named t: the local
\* `repo_info` of the invocation that awaited it.
RepoInfo(t) == [repo_url |-> RepoUrl(t), pages_url |-> PagesUrl(t)]

\* The response carries round 1 whatever the request said.
BuildResponse_RoundOne(rq, repo_info) ==
  TaskResponse(rq.task, 1, repo_info.repo_url, repo_info.pages_url)

\* `return TaskResponse(status="success", task_id=req.task, round=req.round,
\* repo_url=repo_info["repo_url"], pages_url=repo_info["pages_url"])`
BuildResponse(rq, repo_info) ==
  TaskResponse(rq.task, rq.round, repo_info.repo_url, repo_info.pages_url)

\* create_and_deploy_repo returns or raises; on return the payload is built,
\* the notification is scheduled and the response is returned.
BuildPublished(c, outcome) ==
  LET repo_info == RepoInfo(c.req.task) IN
  IF outcome \in {"failed", "failed_partial"}
  THEN Raise(c.req, 500, "create_and_deploy_repo", c.log, c.session)
  ELSE [c EXCEPT
         !.pc = "responded",
         !.sched = create_evaluation_payload(c.req, repo_info.repo_url, repo_info.pages_url),
         !.resp = BuildResponse(c.req, repo_info),
         !.log = @ \o <<"wait_" \o outcome, "add_task", "return">>]

build_published(r) ==
  /\ call[r].pc = "publishing"
  /\ \E outcome \in PublishOutcomes :
       /\ Set(r, BuildPublished(call[r], outcome))
       /\ repo' = create_and_deploy_repo(repo, call[r].req.task, outcome)
  /\ UNCHANGED <<tasks, results, clock>>

\* ------------------------------------------------------------ /api/revise
\* github_mgr.upload_file: replaces one file of the hosting target.
upload_file(hosting, t, file_path) ==
  IF file_path = "index.html"
  THEN [hosting EXCEPT ![t].index = 2]
  ELSE [hosting EXCEPT ![t].readme = 2]

WaitOutcomes == {"ready", "timed_out"}

\* The collaborator calls of revise_task that can raise.
ReviseFaults ==
  {"none", "revise_html", "upload_file:index.html", "upload_file:README.md",
   "get_latest_commit_sha"}

\* The wait timing out ends the revision.
ReviseFinish_TimeoutFatal(rq, fault, wait, lg) ==
  LET t == rq.task
      l6 == Append(lg, "wait_" \o wait)
      l7 == Append(l6, "get_latest_commit_sha")
  IN
  IF wait = "timed_out"
  THEN Raise(rq, 500, "wait_for_pages_deployment", l6, "none")
  ELSE IF fault = "get_latest_commit_sha"
  THEN Raise(rq, 500, fault, l7, "none")
  ELSE [Idle EXCEPT
         !.req = rq,
         !.pc = "responded",
         !.sched = create_evaluation_payload(rq, RepoUrl(t), PagesUrl(t)),
         !.resp = TaskResponse(t, 2, RepoUrl(t), PagesUrl(t)),
         !.log = l7 \o <<"add_task", "return">>]

\* revise_task once both files are replaced: the wait, whose result is not
\* looked at, the commit lookup, the payload, the scheduling, the response.
ReviseFinish(rq, fault, wait, lg) ==
  LET t == rq.task
      l6 == Append(lg, "wait_" \o wait)
      l7 == Append(l6, "get_latest_commit_sha")
  IN
  IF fault = "get_latest_commit_sha"
  THEN Raise(rq, 500, fault, l7, "none")
  ELSE [Idle EXCEPT
         !.req = rq,
         !.pc = "responded",
         !.sched = create_evaluation_payload(rq, RepoUrl(t), PagesUrl(t)),
         !.resp = TaskResponse(t, 2, RepoUrl(t), PagesUrl(t)),
         !.log = l7 \o <<"add_task", "return">>]

\* A failure of the second upload_file undoes the first.
ReplaceFiles_RolledBack(hosting, t, fault) ==
  IF fault \in {"upload_file:index.html", "upload_file:README.md"}
  THEN hosting
  ELSE upload_file(upload_file(hosting, t, "index.html"), t, "README.md")

\* The hosting target after the two upload_file calls of revise_task, the
\* page first and the description second: a call that raises writes nothing
\* and the calls before it are not undone.
ReplaceFiles(hosting, t, fault) ==
  IF fault = "upload_file:index.html"
  THEN hosting
  ELSE IF fault = "upload_file:README.md"
  THEN upload_file(hosting, t, "index.html")
  ELSE upload_file(upload_file(hosting, t, "index.html"), t, "README.md")

\* The body of revise_task's try block: the invocation's record and the
\* hosting target after it.
ReviseBody(rq, fault, wait, hosting) ==
  LET t == rq.task
      l1 == <<"get_repo">>
      l2 == Append(l1, "get_contents")
      l3 == Append(l2, "revise_html")
      l4 == Append(l3, "upload_file:index.html")
      l5 == Append(l4, "upload_file:README.md")
  IN
  IF ~hosting[t].exists
  THEN \* user.get_repo raises outside the inner try: the generic handler
       [slot |-> Raise(rq, 500, "get_repo", l1, "none"), repo |-> hosting]
  ELSE IF hosting[t].index = 0
  THEN \* repo.get_contents raises inside the inner try
       [slot |-> Raise(rq, 404, "get_contents", l2, "none"), repo |-> hosting]
  ELSE IF fault = "revise_html"
  THEN [slot |-> Raise(rq, 500, fault, l3, "none"), repo |-> hosting]
  ELSE IF fault = "upload_file:index.html"
  THEN [slot |-> Raise(rq, 500, fault, l4, "none"),
        repo |-> ReplaceFiles(hosting, t, fault)]
  ELSE IF fault = "upload_file:README.md"
  THEN [slot |-> Raise(rq, 500, fault, l5, "none"),
        repo |-> ReplaceFiles(hosting, t, fault)]
  ELSE [slot |-> ReviseFinish(rq, fault, wait, l5),
        repo |-> ReplaceFiles(hosting, t, fault)]

\* A revision of a target that a revision already replaced answers success
\* without running again.
ReviseRun_Deduplicated(rq, fault, wait, hosting) ==
  IF ~Authenticated(rq)
  THEN [slot |-> Raise(rq, 403, "auth", <<>>, "none"), repo |-> hosting]
  ELSE IF ~RoundAccepted(rq)
  THEN [slot |-> Raise(rq, 400, "round", <<>>, "none"), repo |-> hosting]
  ELSE IF hosting[rq.task].index = 2 /\ hosting[rq.task].readme = 2
  THEN [slot |-> [Idle EXCEPT !.req = rq, !.pc = "done",
                    !.resp = TaskResponse(rq.task, 2, RepoUrl(rq.task), PagesUrl(rq.task))],
        repo |-> hosting]
  ELSE ReviseBody(rq, fault, wait, hosting)

\* revise_task contains no await: the whole handler is one step.  The
\* invocation's record and the hosting target after it.
ReviseRun(rq, fault, wait, hosting) ==
  IF ~Authenticated(rq)
  THEN [slot |-> Raise(rq, 403, "auth", <<>>, "none"), repo |-> hosting]
  ELSE IF ~RoundAccepted(rq)
  THEN [slot |-> Raise(rq, 400, "round", <<>>, "none"), repo |-> hosting]
  ELSE ReviseBody(rq, fault, wait, hosting)

\* The revisions that reach the collaborators: only these have a fault or a
\* wait outcome to choose.
ReviseRuns(rq) ==
  /\ Authenticated(rq)
  /\ RoundAccepted(rq)
  /\ repo[rq.task].exists
  /\ repo[rq.task].index # 0

revise_task(r) ==
  /\ CanEnter(r)
  /\ \E t \in Tasks, rd \in Rounds, s \in Secrets, n \in RequestNonces :
       LET rq == [kind |-> "revise", task |-> t, round |-> rd, secret |-> s, nonce |-> n] IN
       \E fault \in (IF ReviseRuns(rq) THEN ReviseFaults ELSE {"none"}),
          wait \in (IF ReviseRuns(rq) THEN WaitOutcomes ELSE {"ready"}) :
         LET out == ReviseRun(rq, fault, wait, repo)
         IN /\ Set(r, out.slot)
            /\ repo' = out.repo
  /\ UNCHANGED <<tasks, results, clock>>

\* --------------------------------------------------- /api/evaluate/webhook
EvaluationRow(rq, now) ==
  [task |-> rq.task, round |-> rq.round, nonce |-> rq.nonce, timestamp |-> now]

\* The task-store calls of evaluation_webhook that can raise.
WebhookFaults == {"none", "get_task", "log_evaluation_result"}

\* evaluation_webhook contains no await: the whole handler is one step.  The
\* invocation's record, the stored results and the clock after it.
WebhookRun(rq, fault, store, now) ==
  IF fault = "get_task"
  THEN \* get_task raises: db.close() is skipped
       [slot |-> Raise(rq, 500, fault, <<"get_task">>, "open"),
        results |-> store, clock |-> now]
  ELSE IF ~TaskFound(tasks, rq)
  THEN [slot |-> Raise(rq, 404, "not_found", <<"get_task">>, "closed"),
        results |-> store, clock |-> now]
  ELSE IF fault = "log_evaluation_result"
  THEN \* log_evaluation_result raises: db.close() is skipped
       [slot |-> Raise(rq, 500, fault, <<"get_task", "log_evaluation_result">>, "open"),
        results |-> store, clock |-> now + 1]
  ELSE [slot |-> [Idle EXCEPT !.req = rq, !.pc = "done", !.resp = WebhookAck,
                    !.session = "closed",
                    !.log = <<"get_task", "log_evaluation_result">>],
        results |-> StoreResult(store, EvaluationRow(rq, now)),
        clock |-> now + 1]

evaluation_webhook(r) ==
  /\ CanEnter(r)
  /\ clock < MaxClock
  /\ \E t \in Tasks, rd \in Rounds, n \in Nonces :
       LET rq == [kind |-> "webhook", task |-> t, round |-> rd, secret |-> "", nonce |-> n] IN
       \E fault \in (IF TaskFound(tasks, rq) THEN WebhookFaults ELSE {"none", "get_task"}) :
         LET out == WebhookRun(rq, fault, results, clock)
         IN /\ Set(r, out.slot)
            /\ results' = out.results
            /\ clock' = out.clock
  /\ UNCHANGED <<tasks, repo>>

\* ------------------------------------------------------ /api/results, /api/tasks
\* task_mgr.get_results: the stored results of (task_id, round).
TaskManager_get_results(store, t, rd) ==
  {row \in BagToSet(store) : row.task = t /\ row.round = rd}

\* task_mgr.get_student_tasks: the Tasks of the student (there is one student).
TaskManager_get_student_tasks(store) == BagToSet(store)

\* What can go wrong in the two read handlers.
ReadFaults == {"none", "task_store"}

\* get_results contains no await: the whole handler is one step.
ResultsRun(rq, fault, store) ==
  LET found == TaskManager_get_results(store, rq.task, rq.round) IN
  IF fault = "task_store"
  THEN \* get_results raises: db.close() is skipped
       Raise(rq, 500, "get_results", <<"get_results">>, "open")
  ELSE IF found = {}
  THEN Raise(rq, 404, "not_found", <<"get_results">>, "closed")
  ELSE [Idle EXCEPT !.req = rq, !.pc = "done", !.session = "closed",
          !.log = <<"get_results">>,
          !.resp = [code |-> 200, status |-> "ok", task_id |-> rq.task,
                    round |-> rq.round, results |-> found]]

get_results(r) ==
  /\ CanEnter(r)
  /\ \E t \in Tasks, rd \in Rounds, fault \in ReadFaults :
       LET rq == [kind |-> "results", task |-> t, round |-> rd, secret |-> "", nonce |-> 0]
       IN Set(r, ResultsRun(rq, fault, results))
  /\ UNCHANGED <<tasks, results, repo, clock>>

\* get_tasks contains no await: the whole handler is one step.
TasksRun(rq, fault, store) ==
  LET found == TaskManager_get_student_tasks(store) IN
  IF fault = "task_store"
  THEN \* get_student_tasks raises: db.close() is skipped
       Raise(rq, 500, "get_student_tasks", <<"get_student_tasks">>, "open")
  ELSE [Idle EXCEPT !.req = rq, !.pc = "done", !.session = "closed",
          !.log = <<"get_student_tasks">>,
          !.resp = [code |-> 200, status |-> "ok", tasks |-> found,
                    count |-> Cardinality(found)]]

get_tasks(r) ==
  /\ CanEnter(r)
  /\ \E fault \in ReadFaults :
       LET rq == [kind |-> "tasks", task |-> 0, round |-> 0, secret |-> "", nonce |-> 0]
       IN Set(r, TasksRun(rq, fault, tasks))
  /\ UNCHANGED <<tasks, results, repo, clock>>

\* --------------------------------------------------------------- notifier
\* eval_svc.post_to_evaluation_url, run by the framework after the response
\* was sent.  It reads and writes nothing a handler reads, so its retry loop
\* is one step: it stops at the first delivery and after MAX_RETRY_ATTEMPTS
\* attempts.
NotifierOver(att) ==
  \/ Len(att) >= MAX_RETRY_ATTEMPTS
  \/ (Len(att) > 0 /\ att[Len(att)])

\* The attempts made against a target that answers target[i] to attempt i.
RECURSIVE Deliver(_, _)
Deliver(att, target) ==
  IF NotifierOver(att) THEN att
  ELSE Deliver(Append(att, target[Len(att) + 1]), target)

\* What an evaluation_url may answer to each of the attempts it could see.
Targets == [1..(MAX_RETRY_ATTEMPTS + 1) -> BOOLEAN]

post_to_evaluation_url(r) ==
  /\ call[r].pc = "responded"
  /\ \E target \in Targets :
       Set(r, [call[r] EXCEPT !.attempts = Deliver(<<>>, target), !.pc = "done"])
  /\ UNCHANGED <<tasks, results, repo, clock>>

\* ------------------------------------------------------------------- Spec
Next ==
  \E r \in Req :
    \/ build_task(r)
    \/ build_generated(r)
    \/ build_published(r)
    \/ revise_task(r)
    \/ evaluation_webhook(r)
    \/ get_results(r)
    \/ get_tasks(r)
    \/ post_to_evaluation_url(r)

Spec == Init /\ [][Next]_vars

\* ================================================================= claims
\* The invocation c made the call named step.
Made(c, step) == \E i \in DOMAIN c.log : c.log[i] = step

Orchestrators == {"build", "revise"}

\* ---- C1
\* Two /api/build invocations for the same (task, round).
SameTarget(a, b) ==
  /\ a.req.kind = "build"
  /\ b.req.kind = "build"
  /\ a.req.task = b.req.task
  /\ a.req.round = b.req.round

\* C1: two build invocations with the same (task, round) are never both
\* inside the publish step (awaiting create_and_deploy_repo, their response
\* not yet returned) at the same time.
C1_AtMostOnePublishing ==
  \A r1, r2 \in Req :
    (r1 # r2 /\ SameTarget(call[r1], call[r2]))
      => ~(call[r1].pc = "publishing" /\ call[r2].pc = "publishing")

\* ---- C2
SameKey(a, b) == a.task = b.task /\ a.round = b.round /\ a.nonce = b.nonce

C2_OnePerKey ==
  /\ \A row \in BagToSet(results) : CopiesIn(row, results) = 1
  /\ \A a, b \in BagToSet(results) : SameKey(a, b) => a = b
  /\ \A r \in Req :
       (call[r].req.kind = "webhook" /\ call[r].resp.code = 200)
         => call[r].resp = WebhookAck

\* A stored EvaluationResult stays as it was stored.
C2_Kept == \A row \in BagToSet(results) : BagIn(row, results')

C3_BuildRecordsRoundOne ==
  /\ \A row \in BagToSet(tasks) : CopiesIn(row, tasks) = 1
  /\ \A r \in Req :
       (call[r].req.kind = "build" /\ Made(call[r], "generate_app"))
         => /\ HasTask(tasks, call[r].req.task, 1)
            /\ \A row \in BagToSet(tasks) :
                 row.task_id = call[r].req.task => row.round = 1

\* ---- C4
C4_Rejected ==
  \A r \in Req :
    (call[r].req.kind \in Orchestrators /\ call[r].req.secret # STUDENT_SECRET)
      => /\ call[r].pc = "done"
         /\ call[r].resp = HTTPException(403)
         /\ call[r].log = <<>>
         /\ call[r].session = "none"
         /\ call[r].sched = NoPayload
         /\ call[r].attempts = <<>>

C4_NoEffect ==
  \A r \in Req :
    (/\ call'[r] # call[r]
     /\ call'[r].req.kind \in Orchestrators
     /\ call'[r].req.secret # STUDENT_SECRET)
      => (tasks' = tasks /\ repo' = repo /\ results' = results)

\* C4: a build or revise request with a wrong secret ends with 403, makes no
\* call (task store, generation, hosting, waiter, notifier) and leaves the
\* task store, the hosting target and the stored results as they were.
C4_AuthNoSideEffects == [](C4_Rejected) /\ [][C4_NoEffect]_vars

\* A build request with a wrong secret was rejected while a Task was stored.
C4_Witness ==
  \E r \in Req :
    /\ call[r].req.kind = "build"
    /\ call[r].req.secret # STUDENT_SECRET
    /\ call[r].resp.code = 403
    /\ tasks # EmptyBag

\* ---- C5
NoCalls(c) == c.log = <<>> /\ c.sched = NoPayload /\ c.attempts = <<>>

\* C5 (as claimed): every revise request with round # 2 ends with 400,
\* whatever its secret, and makes no call.
C5_WrongRoundAlways400 ==
  \A r \in Req :
    (call[r].req.kind = "revise" /\ call[r].req.round # 2)
      => (call[r].resp = HTTPException(400) /\ NoCalls(call[r]))

\* C5 (amended): a revise request with round # 2 ends with 400 when it
\* carries the configured secret and with 403 when it does not (the secret
\* is checked first); either way it makes no call.
C5_WrongRoundRejected ==
  \A r \in Req :
    (call[r].req.kind = "revise" /\ call[r].req.round # 2)
      => /\ call[r].resp =
              HTTPException(IF call[r].req.secret = STUDENT_SECRET THEN 400 ELSE 403)
         /\ NoCalls(call[r])
         /\ call[r].pc = "done"

\* A revise request with round # 2 and the right secret got 400 although the
\* task has a published page to revise.
C5_Witness ==
  \E r \in Req :
    /\ call[r].req.kind = "revise"
    /\ call[r].req.round # 2
    /\ call[r].req.secret = STUDENT_SECRET
    /\ call[r].resp.code = 400
    /\ repo[call[r].req.task].index # 0

\* ---- C6
\* C6 (as claimed): an authenticated round-2 revise request for a task with
\* no hosting target, or no primary source file on it, ends with 404 and
\* neither generates, replaces a file nor notifies.
C6_NoBuildIs404 ==
  \A r \in Req :
    (/\ call[r].req.kind = "revise"
     /\ call[r].req.secret = STUDENT_SECRET
     /\ call[r].req.round = 2
     /\ call[r].pc = "done"
     /\ (~repo[call[r].req.task].exists \/ repo[call[r].req.task].index = 0))
      => /\ call[r].resp = HTTPException(404)
         /\ ~Made(call[r], "revise_html")
         /\ ~Made(call[r], "upload_file:index.html")
         /\ call[r].sched = NoPayload

\* ---- C7
C7_NotFound ==
  \A r \in Req :
    (/\ call[r].req.kind = "webhook"
     /\ call[r].pc = "done"
     /\ call[r].err # "get_task"
     /\ ~HasTask(tasks, call[r].req.task, call[r].req.round))
      => call[r].resp = HTTPException(404)

C7_NothingStored ==
  \A r \in Req :
    (/\ call'[r] # call[r]
     /\ call'[r].req.kind = "webhook"
     /\ ~HasTask(tasks, call'[r].req.task, call'[r].req.round))
      => results' = results

\* C7: a webhook call whose (task, round) the task-store lookup finds no Task
\* for ends with 404 and stores nothing.
C7_UnknownTaskRejected == [](C7_NotFound) /\ [][C7_NothingStored]_vars

\* A webhook call for an unknown (task, round) got 404 while a result of
\* another task round is stored.
C7_Witness ==
  \E r \in Req :
    /\ call[r].req.kind = "webhook"
    /\ call[r].resp.code = 404
    /\ results # EmptyBag

\* ---- C8
\* C8: an invocation whose readiness wait timed out still schedules the
\* notification and returns success; the only error that can follow a
\* timed-out wait is the failure of the later commit lookup in revise_task.
C8_TimeoutNotFatal ==
  \A r \in Req :
    Made(call[r], "wait_timed_out")
      => \/ /\ call[r].err = "none"
            /\ call[r].resp.code = 200
            /\ call[r].resp.status = "success"
            /\ Made(call[r], "add_task")
            /\ call[r].sched # NoPayload
         \/ /\ call[r].req.kind = "revise"
            /\ call[r].err = "get_latest_commit_sha"

\* A revise invocation whose wait timed out returned success with the
\* notification scheduled.
C8_Witness ==
  \E r \in Req :
    /\ call[r].req.kind = "revise"
    /\ Made(call[r], "wait_timed_out")
    /\ call[r].resp.code = 200
    /\ call[r].sched # NoPayload

\* ---- C9
\* C9: a notifier that is over made one to three attempts, all but the last
\* failed, and it stopped short of three only on a delivery; it ran only for
\* an invocation that had already answered 200, and the answer stays 200.
C9_BoundedDelivery ==
  \A r \in Req :
    /\ (call[r].pc = "done" /\ call[r].sched # NoPayload)
         => /\ call[r].attempts \in
                 {<<TRUE>>, <<FALSE, TRUE>>, <<FALSE, FALSE, TRUE>>,
                  <<FALSE, FALSE, FALSE>>}
            /\ call[r].resp.code = 200
    /\ call[r].attempts # <<>> => (call[r].pc = "done" /\ call[r].sched # NoPayload)

\* A target failed twice and was delivered to on the third attempt.
C9_Witness ==
  \E r \in Req :
    /\ call[r].pc = "done"
    /\ call[r].attempts = <<FALSE, FALSE, TRUE>>
    /\ call[r].resp.code = 200

\* ---- C10
GenerationCalls == {"generate_app", "revise_html"}
PublishCalls ==
  {"create_and_deploy_repo", "upload_file:index.html", "upload_file:README.md"}
WaitCalls == {"wait_ready", "wait_timed_out"}

\* C10: an invocation whose generation call failed made no publish call; one
\* whose generation or publish call failed ran no wait, scheduled no
\* notification, and answered 500.
C10_FailureAborts ==
  \A r \in Req :
    /\ call[r].err \in GenerationCalls
         => \A step \in PublishCalls : ~Made(call[r], step)
    /\ call[r].err \in GenerationCalls \cup PublishCalls
         => /\ call[r].pc = "done"
            /\ call[r].resp = HTTPException(500)
            /\ \A step \in WaitCalls : ~Made(call[r], step)
            /\ ~Made(call[r], "add_task")
            /\ call[r].sched = NoPayload
            /\ call[r].attempts = <<>>

\* A revise invocation failed on its second write, after the first one.
C10_Witness ==
  \E r \in Req :
    /\ call[r].err = "upload_file:README.md"
    /\ Made(call[r], "upload_file:index.html")
    /\ call[r].resp.code = 500

C12_ReviseRecordsRoundTwo ==
  \A r \in Req :
    LET c == call[r] IN
    (/\ c.req.kind = "revise"
     /\ c.resp.code = 200
     /\ HasTask(tasks, c.req.task, 1)) => HasTask(tasks, c.req.task, 2)

\* ---- C13
\* The calls of a complete revision, in the order revise_task makes them.
RevisionCalls(wait) ==
  <<"get_repo", "get_contents", "revise_html", "upload_file:index.html",
    "upload_file:README.md", "wait_" \o wait, "get_latest_commit_sha",
    "add_task", "return">>

\* C13: /api/revise is not deduplicated by nonce: every revise request that
\* passes the secret and round checks, a replay of a successful one with the
\* same nonce included, starts the revision again, and every one that
\* succeeds has fetched, regenerated, replaced both files, waited and
\* scheduled a notification of its own.
C13_ReplayRunsAgain ==
  \A r \in Req :
    LET c == call[r] IN
    (c.req.kind = "revise" /\ Authenticated(c.req) /\ RoundAccepted(c.req)) =>
      /\ Made(c, "get_repo")
      /\ c.resp.code = 200 =>
           /\ \E wait \in WaitOutcomes : c.log = RevisionCalls(wait)
           /\ c.sched = create_evaluation_payload(c.req, RepoUrl(c.req.task),
                                                  PagesUrl(c.req.task))

\* A revision succeeded, the same request was sent again with the same nonce
\* and succeeded again: both are waiting for their own notification.
C13_Witness ==
  \E r1, r2 \in Req :
    /\ r1 # r2
    /\ call[r1].req.kind = "revise" /\ call[r2].req = call[r1].req
    /\ call[r1].pc = "responded" /\ call[r2].pc = "responded"
    /\ call[r1].resp.code = 200 /\ call[r2].resp.code = 200
    /\ Made(call[r1], "revise_html") /\ Made(call[r2], "revise_html")
    /\ call[r1].sched # NoPayload /\ call[r2].sched # NoPayload

\* ---- C14
\* C14: a Task with round = 2 is stored only if a round-1 Task for the same
\* task_id is stored and has reached status notified.
C14_RoundTwoNeedsNotifiedRoundOne ==
  \A row \in BagToSet(tasks) :
    row.round = 2 =>
      \E first \in BagToSet(tasks) :
        /\ first.task_id = row.task_id
        /\ first.round = 1
        /\ first.status = "notified"

\* ---- C15
\* The calls of a complete build, in the order build_task makes them.
BuildCalls(outcome) ==
  <<"process_attachments", "create_task", "generate_app",
    "create_and_deploy_repo", "wait_" \o outcome, "add_task", "return">>

\* The calls of c are the first calls of a complete build.
InBuildOrder(c) ==
  \E outcome \in {"ready", "timed_out"} :
    /\ Len(c.log) <= Len(BuildCalls(outcome))
    /\ c.log = SubSeq(BuildCalls(outcome), 1, Len(c.log))

\* C15: within one build invocation the Task is recorded before generation
\* starts, generation is over before the publish call starts, the publish
\* call with its wait is over before the notification is scheduled, the
\* notification is scheduled before the response is returned, and delivery
\* runs only after the response.
C15_BuildStepsInOrder ==
  \A r \in Req :
    LET c == call[r]
        t == c.req.task
    IN
    c.req.kind = "build" =>
      /\ InBuildOrder(c)
      /\ Made(c, "generate_app") => HasTask(tasks, t, c.req.round)
      /\ c.pc = "generating" => c.log[Len(c.log)] = "generate_app"
      /\ c.pc = "publishing" => c.log[Len(c.log)] = "create_and_deploy_repo"
      /\ c.pc \in {"generating", "publishing"} =>
           c.sched = NoPayload /\ c.resp = NoResp
      /\ (c.sched # NoPayload) <=> Made(c, "add_task")
      /\ Made(c, "add_task") => repo[t].exists /\ repo[t].index # 0
      /\ (c.resp.code = 200) <=> Made(c, "return")
      /\ c.attempts # <<>> => c.resp.code = 200 /\ c.pc = "done"

\* A build went through every step and its notification was delivered at
\* the second attempt.
C15_Witness ==
  \E r \in Req :
    /\ call[r].req.kind = "build"
    /\ call[r].pc = "done"
    /\ call[r].log = BuildCalls("ready")
    /\ call[r].attempts = <<FALSE, TRUE>>

\* ---- C16
\* C16: whenever a build or revise invocation ends with a generation or
\* publish failure, the Task recorded for it is stored with status failed.
C16_FailedTaskMarked ==
  \A r \in Req :
    LET c == call[r] IN
    (/\ c.req.kind \in Orchestrators
     /\ c.pc = "done"
     /\ c.err \in GenerationCalls \cup PublishCalls) =>
      \E row \in BagToSet(tasks) :
        /\ row.task_id = c.req.task
        /\ row.round = c.req.round
        /\ row.status = "failed"

\* ---- C17
\* The invocation in slot r ended, in this step, at the second upload_file.
C17_SecondWriteFailed(c) ==
  c.req.kind = "revise" /\ c.err = "upload_file:README.md"

\* It answered 500 after the two writes in their order, with no wait, no
\* commit lookup and no notification, and the page is the revised one.
C17_PartialState ==
  \A r \in Req :
    LET c == call[r] IN
    C17_SecondWriteFailed(c) =>
      /\ c.resp = HTTPException(500)
      /\ c.log = <<"get_repo", "get_contents", "revise_html",
                   "upload_file:index.html", "upload_file:README.md">>
      /\ c.sched = NoPayload
      /\ c.attempts = <<>>
      /\ repo[c.req.task].index = 2

\* The step in which it failed replaced the page and nothing else.
C17_NotRolledBack ==
  \A r \in Req :
    (C17_SecondWriteFailed(call'[r]) /\ call'[r] # call[r]) =>
      repo' = [repo EXCEPT ![call'[r].req.task].index = 2]

\* C17: in revise the page and the description are replaced by two writes in
\* that order; when the first succeeds and the second fails, the first is
\* not rolled back, the request ends with 500, and no wait and no
\* notification follow.
C17_PartialWriteKept == [](C17_PartialState) /\ [][C17_NotRolledBack]_vars

\* The second write failed on a target that held the built page and the
\* built description: the page is revised, the description is not.
C17_Witness ==
  \E r \in Req :
    /\ C17_SecondWriteFailed(call[r])
    /\ repo[call[r].req.task].index = 2
    /\ repo[call[r].req.task].readme = 1

\* ---- C18
\* C18: a Task reaches status notified when its notification has been
\* accepted for sending: once a build has handed its payload to add_task,
\* its Task is stored as notified.
C18_NotifiedOnceScheduled ==
  \A r \in Req :
    LET c == call[r] IN
    (c.req.kind = "build" /\ Made(c, "add_task")) =>
      \E row \in BagToSet(tasks) :
        /\ row.task_id = c.req.task
        /\ row.round = c.req.round
        /\ row.status = "notified"

\* ---- C19
\* Every stored result has its Task.
C19_ResultsHaveTask ==
  \A row \in BagToSet(results) : HasTask(tasks, row.task, row.round)

\* No step removes a Task.
C19_TasksKept ==
  \A row \in BagToSet(tasks) : CopiesIn(row, tasks') >= CopiesIn(row, tasks)

\* C19: every EvaluationResult in the store refers to a stored Task with the
\* same (task, round), after any interleaving of build, revise and webhook
\* calls: results are stored only after the lookup succeeds and Tasks are
\* never deleted.
C19_ResultsReferToTasks == [](C19_ResultsHaveTask) /\ [][C19_TasksKept]_vars

\* A round-2 result is stored next to a round-1 Task that has none, after a
\* revision of the task succeeded.
C19_Witness ==
  /\ \E row \in BagToSet(results) : row.round = 2 /\ HasTask(tasks, row.task, 2)
  /\ \E t \in Tasks : HasTask(tasks, t, 1) /\ ~HasResult(results, t, 1, 1)
  /\ \E r \in Req : call[r].req.kind = "revise" /\ call[r].resp.code = 200

\* ---- C20
\* C20: every database session a handler opened is closed when the handler
\* has returned or raised.
C20_SessionsClosed ==
  \A r \in Req :
    call[r].resp.code # 0 => call[r].session # "open"
====
